---- MODULE Spec2Model ----
(***************************************************************************)
(* NeuroOS asset generators: scripts/generate_icon.py (create_neuro_icon)  *)
(* and scripts/generate_installer_assets.py (create_installer_assets).     *)
(*                                                                         *)
(* Each script is a straight-line procedure: allocate a canvas, draw on    *)
(* it, save it.  A run is modelled statement by statement; the two         *)
(* procedures are separate processes whose steps may interleave.           *)
(*                                                                         *)
(* A canvas is held exactly, run-length encoded: px[y] is the sequence of  *)
(* runs <<x0, x1, colour>> that partition row y from left to right, with   *)
(* neighbouring runs of different colour.  Equal rasters are equal values. *)
(*                                                                         *)
(* The imaging library (PIL) is called, not defined, by the scripts.  Its  *)
(* calls are modelled by their documented behaviour:                       *)
(*   - Image.new fills the whole canvas with the given colour;             *)
(*   - drawing is clipped to the canvas; rectangle corners are inclusive;  *)
(*   - polygon joins the last point to the first and fills the outline     *)
(*     too; which pixels along a slanted edge are painted depends on the   *)
(*     library build, so it is a choice (edgeRule) over the two outcomes;  *)
(*   - save opens the target for writing (failing when the directory is    *)
(*     missing or the target cannot be opened) and then encodes;           *)
(*   - the ICO encoder ignores every requested size that is larger than    *)
(*     the image or larger than 256 in either dimension.                   *)
(***************************************************************************)
EXTENDS Integers, Sequences, FiniteSets, TLC

(* ------------------------------------------------------------------ *)
(* Bounds of the model                                                 *)
(* ------------------------------------------------------------------ *)

\* invocations of the scripts that a behaviour may contain
MaxRuns == 2

\* targets that cannot be opened for writing when a behaviour starts
MaxLocked == 1

(* ------------------------------------------------------------------ *)
(* Program constants                                                   *)
(* ------------------------------------------------------------------ *)

size == 512
radius == 128
sidebar_w == 164
sidebar_h == 314
border_h == 5
header_w == 150
header_h == 57

WHITE_RGBA == <<255, 255, 255, 255>>
ZINC_RGBA == <<24, 24, 27, 255>>
WHITE_RGB == <<255, 255, 255>>
ZINC_RGB == <<24, 24, 27>>

icon_path_coords ==
  << <<160, 352>>, <<160, 160>>, <<208, 160>>, <<304, 304>>,
     <<304, 160>>, <<352, 160>>, <<352, 352>>, <<304, 352>>,
     <<208, 208>>, <<208, 352>>, <<160, 352>> >>

\* faulty variant: a mistyped vertex, (120, 80) for (80, 120), folds the outline over
\* itself
sidebar_path_coords_crossed ==
  << <<60, 150>>, <<60, 100>>, <<80, 100>>, <<104, 130>>, <<104, 100>>,
     <<114, 100>>, <<114, 150>>, <<104, 150>>, <<120, 80>>, <<80, 150>> >>

sidebar_path_coords ==
  << <<60, 150>>, <<60, 100>>, <<80, 100>>, <<104, 130>>, <<104, 100>>,
     <<114, 100>>, <<114, 150>>, <<104, 150>>, <<80, 120>>, <<80, 150>> >>

\* faulty variant: the header glyph placed three rows too low for its canvas
header_n_small_low ==
  << <<120, 60>>, <<120, 35>>, <<125, 35>>, <<135, 50>>, <<135, 35>>,
     <<140, 35>>, <<140, 60>>, <<135, 60>>, <<125, 45>>, <<125, 60>> >>

header_n_small ==
  << <<120, 40>>, <<120, 15>>, <<125, 15>>, <<135, 30>>, <<135, 15>>,
     <<140, 15>>, <<140, 40>>, <<135, 40>>, <<125, 25>>, <<125, 40>> >>

icon_sizes_list ==
  << <<16, 16>>, <<32, 32>>, <<48, 48>>, <<64, 64>>,
     <<128, 128>>, <<256, 256>>, <<512, 512>> >>

ICO_PATH == "e:/chatit.cloud/2030/NeuroOS/build/icon.ico"
PNG_PATH == "e:/chatit.cloud/2030/NeuroOS/build/icon.png"
SIDEBAR_PATH == "e:/chatit.cloud/2030/NeuroOS/build/installerSidebar.bmp"
\* faulty variant: the header saved to the path of the icon container
HEADER_PATH_shared == "e:/chatit.cloud/2030/NeuroOS/build/icon.ico"

HEADER_PATH == "e:/chatit.cloud/2030/NeuroOS/build/installerHeader.bmp"

ICON_MESSAGE == "Icon generated successfully: icon.ico and icon.png"
INSTALLER_MESSAGE ==
  "Installer assets generated: installerSidebar.bmp and installerHeader.bmp"

IconFiles == {ICO_PATH, PNG_PATH}
InstallerFiles == {SIDEBAR_PATH, HEADER_PATH}
Files == IconFiles \cup InstallerFiles

(* ------------------------------------------------------------------ *)
(* Integer helpers                                                     *)
(* ------------------------------------------------------------------ *)

Min2(a, b) == IF a <= b THEN a ELSE b
Max2(a, b) == IF a >= b THEN a ELSE b
SetMin(S) == CHOOSE a \in S : \A b \in S : a <= b
SetMax(S) == CHOOSE a \in S : \A b \in S : a >= b

\* the elements of a finite set of integers in increasing order
SortedSeq(S) ==
  [i \in 1..Cardinality(S) |->
     CHOOSE a \in S : Cardinality({b \in S : b < a}) = i - 1]

\* floor of the square root of v, for v <= r * r
Isqrt(v, r) == CHOOSE k \in 0..r : k * k <= v /\ (k + 1) * (k + 1) > v

Range(f) == {f[i] : i \in DOMAIN f}

(* ------------------------------------------------------------------ *)
(* Polygons                                                            *)
(* ------------------------------------------------------------------ *)

\* edge i of the closed outline: point i joined to the next, the last to the
\* first.  Coordinates are scaled by k so that half pixels are integers.
Edge(xy, i, k) ==
  LET a == xy[i]
      b == xy[(i % Len(xy)) + 1]
  IN <<k * a[1], k * a[2], k * b[1], k * b[2]>>

Cross(e, p) == (p[1] - e[1]) * (e[4] - e[2]) - (p[2] - e[2]) * (e[3] - e[1])

\* p lies on the segment e
OnEdge(e, p) ==
  /\ Min2(e[2], e[4]) <= p[2] /\ p[2] <= Max2(e[2], e[4])
  /\ Min2(e[1], e[3]) <= p[1] /\ p[1] <= Max2(e[1], e[3])
  /\ Cross(e, p) = 0

\* the ray from p towards +x crosses e (half-open in y)
RayCrosses(e, p) ==
  /\ (e[2] > p[2]) # (e[4] > p[2])
  /\ IF e[4] > e[2] THEN Cross(e, p) < 0 ELSE Cross(e, p) > 0

\* the edges of the outline that meet row y (y in units of 1/k)
EdgesAtRow(xy, k, y) ==
  {e \in {Edge(xy, i, k) : i \in 1..Len(xy)} :
     Min2(e[2], e[4]) <= y /\ y <= Max2(e[2], e[4])}

OnOutline(es, p) == \E e \in es : OnEdge(e, p)

OddCrossings(es, p) == Cardinality({e \in es : RayCrosses(e, p)}) % 2 = 1

\* inside or on the outline whose edges at p's row are es
InClosed(es, p) == OnOutline(es, p) \/ OddCrossings(es, p)

XsOf(xy) == {xy[i][1] : i \in 1..Len(xy)}
YsOf(xy) == {xy[i][2] : i \in 1..Len(xy)}

(* ------------------------------------------------------------------ *)
(* Shapes: for each row, the spans <<x0, x1>> a draw call covers        *)
(* ------------------------------------------------------------------ *)

\* the maximal spans of a set of columns
SpansOf(S) ==
  LET ends == {x \in S : x + 1 \notin S}
  IN {<<a, SetMin({e \in ends : e >= a})>> : a \in {x \in S : x - 1 \notin S}}

\* the maximal spans that cover what the given spans cover
MergeSpans(spans) ==
  LET Covered(x) == \E s \in spans : s[1] <= x /\ x <= s[2]
      ends == {s[2] : s \in {t \in spans : ~Covered(t[2] + 1)}}
  IN {<<s[1], SetMin({e \in ends : e >= s[1]})>> :
        s \in {t \in spans : ~Covered(t[1] - 1)}}

EdgeRules == {"centre", "nearest"}

RowsOf(xy) == SetMin(YsOf(xy))..SetMax(YsOf(xy))

\* the pixels whose centre lies in the closed polygon, row by row
CentreShape(xy) ==
  [y \in RowsOf(xy) |->
     LET es == EdgesAtRow(xy, 1, y)
     IN SpansOf({x \in SetMin(XsOf(xy))..SetMax(XsOf(xy)) :
                   InClosed(es, <<x, y>>)})]

\* the polygons the scripts draw
GlyphCoords == {icon_path_coords, sidebar_path_coords, header_n_small}

\* CentreShape of each, computed once
CentreTable == [xy \in GlyphCoords |-> CentreShape(xy)]

\* span ends rounded to the nearest pixel: a span of CentreShape grows by a
\* pixel at an end where the polygon reaches half a pixel or more beyond it
NearestShape(xy) ==
  [y \in RowsOf(xy) |->
     LET es == EdgesAtRow(xy, 2, 2 * y)
     IN MergeSpans(
          {<<IF InClosed(es, <<2 * s[1] - 1, 2 * y>>) THEN s[1] - 1 ELSE s[1],
             IF InClosed(es, <<2 * s[2] + 1, 2 * y>>) THEN s[2] + 1 ELSE s[2]>> :
             s \in CentreTable[xy][y]})]

\* the pixels strictly inside the outline, row by row
InteriorShape(xy) ==
  [y \in RowsOf(xy) |->
     LET es == EdgesAtRow(xy, 1, y)
     IN UNION {SpansOf({x \in s[1]..s[2] : ~OnOutline(es, <<x, y>>)}) :
                 s \in CentreTable[xy][y]}]

\* what polygon(xy) paints under each edge rule, and what lies strictly
\* inside xy, computed once
PolygonTable ==
  [xy \in GlyphCoords |->
     [centre |-> CentreTable[xy], nearest |-> NearestShape(xy)]]

InteriorTable == [xy \in GlyphCoords |-> InteriorShape(xy)]

\* the pixels polygon(xy) paints, row by row, under an edge rule
PolygonShape(xy, rule) == PolygonTable[xy][rule]

\* rectangle([x0, y0, x1, y1]): both corners inclusive
RectangleShape(box) ==
  [y \in box[2]..box[4] |-> {<<box[1], box[3]>>}]

\* rounded_rectangle([x0, y0, x1, y1], radius): the rectangle less what lies
\* outside the quarter circles of its four corners
RoundedRectangleShape(box, r) ==
  [y \in box[2]..box[4] |->
     LET d == IF y < box[2] + r THEN box[2] + r - y
              ELSE IF y > box[4] - r THEN y - (box[4] - r)
              ELSE 0
         inset == r - Isqrt(r * r - d * d, r)
     IN {<<box[1] + inset, box[3] - inset>>}]

(* ------------------------------------------------------------------ *)
(* Canvases                                                            *)
(* ------------------------------------------------------------------ *)

None == "None"

\* Image.new(mode, (w, h), colour)
NewImage(mode, wh, colour) ==
  [mode |-> mode, size |-> wh,
   px |-> [y \in 0..(wh[2] - 1) |-> << <<0, wh[1] - 1, colour>> >>]]

\* the colour of column x in a row
RowColour(row, x) ==
  row[CHOOSE i \in DOMAIN row : row[i][1] <= x /\ x <= row[i][2]][3]

\* getpixel((x, y))
GetPixel(im, x, y) == RowColour(im.px[y], x)

\* the part of a row's spans that lies on a canvas w pixels wide
Clip(spans, w) ==
  {<<Max2(s[1], 0), Min2(s[2], w - 1)>> :
     s \in {t \in spans : t[1] <= t[2] /\ t[1] <= w - 1 /\ t[2] >= 0}}

\* a row with the spans set to fill, re-encoded as maximal runs
PaintRow(row, w, spans, fill) ==
  LET clipped == Clip(spans, w)
      ColourAt(x) == IF \E s \in clipped : s[1] <= x /\ x <= s[2]
                     THEN fill ELSE RowColour(row, x)
      breaks == {row[i][1] : i \in DOMAIN row}
                  \cup {s[1] : s \in clipped}
                  \cup {s[2] + 1 : s \in {t \in clipped : t[2] + 1 <= w - 1}}
      starts == {b \in breaks : b = 0 \/ ColourAt(b - 1) # ColourAt(b)}
      EndOf(a) == IF \E b \in starts : b > a
                  THEN SetMin({b \in starts : b > a}) - 1 ELSE w - 1
      order == SortedSeq(starts)
  IN IF clipped = {} THEN row
     ELSE [i \in DOMAIN order |-> <<order[i], EndOf(order[i]), ColourAt(order[i])>>]

\* a draw call: every pixel of the shape that lies on the canvas takes fill
Paint(im, shape, fill) ==
  [im EXCEPT !.px =
     [y \in DOMAIN im.px |->
        IF y \in DOMAIN shape
        THEN PaintRow(im.px[y], im.size[1], shape[y], fill)
        ELSE im.px[y]]]

(* ------------------------------------------------------------------ *)
(* Encoders                                                            *)
(* ------------------------------------------------------------------ *)

Raster(im) == [mode |-> im.mode, size |-> im.size, px |-> im.px]

\* image.save('....png'): the canvas itself, mode and alpha kept
EncodePNG(im) == [format |-> "PNG", image |-> Raster(im)]

\* image.save('....bmp'): the canvas itself, uncompressed
EncodeBMP(im) == [format |-> "BMP", image |-> Raster(im)]

\* the sizes the ICO encoder embeds: those requested, less every size larger
\* than the image or larger than 256 (the container's size fields hold one
\* byte each)
IcoFrameSizes(im, sizes) ==
  {s \in Range(sizes) :
     /\ s[1] <= im.size[1] /\ s[2] <= im.size[2]
     /\ s[1] <= 256 /\ s[2] <= 256}

\* image.save('....ico', sizes=sizes): one frame per embedded size, each a
\* resampled copy of the one source canvas
EncodeICO(im, sizes) ==
  [format |-> "ICO", frames |-> IcoFrameSizes(im, sizes), source |-> Raster(im)]

(* ------------------------------------------------------------------ *)
(* State                                                               *)
(* ------------------------------------------------------------------ *)

Procs == {"icon", "installer"}

VARIABLES
  dirExists,  \* the build directory exists
  locked,     \* the targets that exist and cannot be opened for writing
  pil,        \* the installed library: its edge rule, and whether it
              \* offers rounded_rectangle
  fs,         \* the content of each output path
  fs0,        \* the content of each output path when the behaviour started
  stdout,     \* the lines printed so far
  pc,         \* per script: the statement it is at
  locals,     \* per script: its local variables
  runs,       \* per script: invocations so far
  wrote,      \* per script: the paths this run has written, in order
  failed,     \* per script: the call that raised in this run, or None
  printed,    \* per script: lines this run has printed
  prevOk      \* per script: the run before this one ran to completion

vars == <<dirExists, locked, pil, fs, fs0, stdout, pc, locals, runs, wrote, failed,
          printed, prevOk>>

env == <<dirExists, locked, pil, fs0>>

\* no file at a path; a file left by an earlier build
NoFile == [format |-> "absent"]
Stale == [format |-> "stale"]

\* an unbound canvas variable; an unbound list variable
NoImage == [mode |-> None]
NoList == <<>>

NoLocals(p) ==
  IF p = "icon"
  THEN [image |-> NoImage, draw |-> None, path_coords |-> NoList,
        icon_sizes |-> NoList]
  ELSE [sidebar |-> NoImage, header |-> NoImage, draw |-> None,
        path_coords |-> NoList, n_small |-> NoList]

Init ==
  /\ dirExists \in BOOLEAN
  /\ locked \in {L \in SUBSET Files : Cardinality(L) <= MaxLocked}
  /\ dirExists = FALSE => locked = {}
  \* a locked target is a file; the other targets are all there, left by an
  \* earlier build, or none is
  /\ \E rest \in {NoFile, Stale} :
       /\ dirExists = FALSE => rest = NoFile
       /\ fs = [f \in Files |-> IF f \in locked THEN Stale ELSE rest]
  /\ fs0 = fs
  /\ pil \in [edge : EdgeRules, rounded_rectangle : BOOLEAN]
  /\ stdout = <<>>
  /\ pc = [p \in Procs |-> "idle"]
  /\ locals = [p \in Procs |-> NoLocals(p)]
  /\ runs = [p \in Procs |-> 0]
  /\ wrote = [p \in Procs |-> <<>>]
  /\ failed = [p \in Procs |-> None]
  /\ printed = [p \in Procs |-> 0]
  /\ prevOk = [p \in Procs |-> FALSE]

(* ------------------------------------------------------------------ *)
(* Steps shared by the two scripts                                     *)
(* ------------------------------------------------------------------ *)

\* the script is called: a fresh frame
Enter(p, first) ==
  /\ pc[p] \in {"idle", "done", "failed"}
  /\ runs["icon"] + runs["installer"] < MaxRuns
  /\ runs' = [runs EXCEPT ![p] = @ + 1]
  /\ prevOk' = [prevOk EXCEPT ![p] = (pc[p] = "done")]
  /\ wrote' = [wrote EXCEPT ![p] = <<>>]
  /\ failed' = [failed EXCEPT ![p] = None]
  /\ printed' = [printed EXCEPT ![p] = 0]
  /\ pc' = [pc EXCEPT ![p] = first]

\* faulty variant: a handler that removes the files the run had written before it
\* re-raises
RaiseWithCleanup(p, what) ==
  /\ pc' = [pc EXCEPT ![p] = "failed"]
  /\ failed' = [failed EXCEPT ![p] = what]
  /\ locals' = [locals EXCEPT ![p] = NoLocals(p)]
  /\ fs' = [f \in DOMAIN fs |-> IF f \in Range(wrote[p]) THEN NoFile ELSE fs[f]]
  /\ UNCHANGED <<wrote, stdout, printed>>

\* an exception leaves the script: nothing catches it, the frame is gone
Raise(p, what) ==
  /\ pc' = [pc EXCEPT ![p] = "failed"]
  /\ failed' = [failed EXCEPT ![p] = what]
  /\ locals' = [locals EXCEPT ![p] = NoLocals(p)]
  /\ UNCHANGED <<fs, wrote, stdout, printed>>

\* faulty variant: the directory is not needed (it is made when missing)
CanOpenAnywhere(path) == path \notin locked

\* faulty variant: exclusive creation, which refuses a target that exists
CanOpenExclusive(path) == dirExists /\ path \notin locked /\ fs[path] = NoFile

\* open(path, "w+b") succeeds
CanOpen(path) == dirExists /\ path \notin locked

\* the opened target is truncated and the encoded image written
Write(p, path, content, next) ==
  /\ fs' = [fs EXCEPT ![path] = content]
  /\ wrote' = [wrote EXCEPT ![p] = Append(@, path)]
  /\ pc' = [pc EXCEPT ![p] = next]
  /\ UNCHANGED <<failed, stdout, printed>>

\* im.save(path): the target is opened and written, or the open raises and
\* nothing is written
Save(p, path, content, next) ==
  IF CanOpen(path)
  THEN Write(p, path, content, next) /\ UNCHANGED locals
  ELSE Raise(p, path)

\* draw.<shape>(..., fill): paints the canvas draw is bound to
DrawOn(frame, shape, fill) ==
  [frame EXCEPT ![frame.draw] = Paint(@, shape, fill)]

\* print(message), then the script returns
PrintAndReturn(p, message) ==
  /\ stdout' = Append(stdout, message)
  /\ printed' = [printed EXCEPT ![p] = @ + 1]
  /\ pc' = [pc EXCEPT ![p] = "done"]
  /\ locals' = [locals EXCEPT ![p] = NoLocals(p)]
  /\ UNCHANGED <<fs, wrote, failed>>

(* ------------------------------------------------------------------ *)
(* create_neuro_icon                                                   *)
(* ------------------------------------------------------------------ *)

IconBackground == RoundedRectangleShape(<<0, 0, size, size>>, radius)

\* lines 5-7
IconNew ==
  /\ Enter("icon", "L11")
  /\ locals' = [locals EXCEPT !["icon"] =
       [NoLocals("icon") EXCEPT
          !.image = NewImage("RGBA", <<size, size>>, WHITE_RGBA),
          !.draw = "image"]]
  /\ UNCHANGED <<env, fs, stdout>>

\* line 11
IconRoundedRectangle ==
  /\ pc["icon"] = "L11"
  /\ IF pil.rounded_rectangle
     THEN /\ locals' = [locals EXCEPT !["icon"] =
                          DrawOn(@, IconBackground, WHITE_RGBA)]
          /\ pc' = [pc EXCEPT !["icon"] = "L16"]
          /\ UNCHANGED <<fs, wrote, failed, stdout, printed>>
     ELSE Raise("icon", "rounded_rectangle")
  /\ UNCHANGED <<env, runs, prevOk>>

\* lines 16-22
IconPolygon ==
  /\ pc["icon"] = "L16"
  /\ locals' = [locals EXCEPT !["icon"] =
       DrawOn([@ EXCEPT !.path_coords = icon_path_coords],
              PolygonShape(icon_path_coords, pil.edge), ZINC_RGBA)]
  /\ pc' = [pc EXCEPT !["icon"] = "L25"]
  /\ UNCHANGED <<env, fs, stdout, runs, wrote, failed, printed, prevOk>>

\* lines 25-26
IconSaveIco ==
  /\ pc["icon"] = "L25"
  /\ IF CanOpen(ICO_PATH)
     THEN /\ locals' = [locals EXCEPT !["icon"].icon_sizes = icon_sizes_list]
          /\ Write("icon", ICO_PATH,
                   EncodeICO(locals["icon"].image, icon_sizes_list), "L27")
     ELSE Raise("icon", ICO_PATH)
  /\ UNCHANGED <<env, runs, prevOk>>

\* line 27
IconSavePng ==
  /\ pc["icon"] = "L27"
  /\ Save("icon", PNG_PATH, EncodePNG(locals["icon"].image), "L28")
  /\ UNCHANGED <<env, runs, prevOk>>

\* line 28
IconPrint ==
  /\ pc["icon"] = "L28"
  /\ PrintAndReturn("icon", ICON_MESSAGE)
  /\ UNCHANGED <<env, runs, prevOk>>

create_neuro_icon ==
  \/ IconNew
  \/ IconRoundedRectangle
  \/ IconPolygon
  \/ IconSaveIco
  \/ IconSavePng
  \/ IconPrint

(* ------------------------------------------------------------------ *)
(* create_installer_assets                                             *)
(* ------------------------------------------------------------------ *)

\* lines 5-7
SidebarNew ==
  /\ Enter("installer", "L10")
  /\ locals' = [locals EXCEPT !["installer"] =
       [NoLocals("installer") EXCEPT
          !.sidebar = NewImage("RGB", <<sidebar_w, sidebar_h>>, WHITE_RGB),
          !.draw = "sidebar"]]
  /\ UNCHANGED <<env, fs, stdout>>

\* faulty variant: a border one row short
SidebarBorderThin ==
  /\ pc["installer"] = "L10"
  /\ locals' = [locals EXCEPT !["installer"] =
       DrawOn(@, RectangleShape(<<0, sidebar_h - 4, sidebar_w, sidebar_h>>),
              ZINC_RGB)]
  /\ pc' = [pc EXCEPT !["installer"] = "L13"]
  /\ UNCHANGED <<env, fs, stdout, runs, wrote, failed, printed, prevOk>>

\* line 10
SidebarBorder ==
  /\ pc["installer"] = "L10"
  /\ locals' = [locals EXCEPT !["installer"] =
       DrawOn(@, RectangleShape(<<0, sidebar_h - border_h, sidebar_w, sidebar_h>>),
              ZINC_RGB)]
  /\ pc' = [pc EXCEPT !["installer"] = "L13"]
  /\ UNCHANGED <<env, fs, stdout, runs, wrote, failed, printed, prevOk>>

\* lines 13-14
SidebarPolygon ==
  /\ pc["installer"] = "L13"
  /\ locals' = [locals EXCEPT !["installer"] =
       DrawOn([@ EXCEPT !.path_coords = sidebar_path_coords],
              PolygonShape(sidebar_path_coords, pil.edge), ZINC_RGB)]
  /\ pc' = [pc EXCEPT !["installer"] = "L16"]
  /\ UNCHANGED <<env, fs, stdout, runs, wrote, failed, printed, prevOk>>

\* line 16
SidebarSave ==
  /\ pc["installer"] = "L16"
  /\ Save("installer", SIDEBAR_PATH, EncodeBMP(locals["installer"].sidebar), "L19")
  /\ UNCHANGED <<env, runs, prevOk>>

\* lines 19-21
HeaderNew ==
  /\ pc["installer"] = "L19"
  /\ locals' = [locals EXCEPT !["installer"] =
       [@ EXCEPT !.header = NewImage("RGB", <<header_w, header_h>>, WHITE_RGB),
                 !.draw = "header"]]
  /\ pc' = [pc EXCEPT !["installer"] = "L24"]
  /\ UNCHANGED <<env, fs, stdout, runs, wrote, failed, printed, prevOk>>

\* faulty variant: the header glyph filled pure black
HeaderPolygonBlack ==
  /\ pc["installer"] = "L24"
  /\ locals' = [locals EXCEPT !["installer"] =
       DrawOn([@ EXCEPT !.n_small = header_n_small],
              PolygonShape(header_n_small, pil.edge), <<0, 0, 0>>)]
  /\ pc' = [pc EXCEPT !["installer"] = "L27"]
  /\ UNCHANGED <<env, fs, stdout, runs, wrote, failed, printed, prevOk>>

\* lines 24-25
HeaderPolygon ==
  /\ pc["installer"] = "L24"
  /\ locals' = [locals EXCEPT !["installer"] =
       DrawOn([@ EXCEPT !.n_small = header_n_small],
              PolygonShape(header_n_small, pil.edge), ZINC_RGB)]
  /\ pc' = [pc EXCEPT !["installer"] = "L27"]
  /\ UNCHANGED <<env, fs, stdout, runs, wrote, failed, printed, prevOk>>

\* line 27
HeaderSave ==
  /\ pc["installer"] = "L27"
  /\ Save("installer", HEADER_PATH, EncodeBMP(locals["installer"].header), "L28")
  /\ UNCHANGED <<env, runs, prevOk>>

\* faulty variant: the message printed before the header is saved
InstallerPrintEarly ==
  /\ pc["installer"] \in {"L27", "L28"}
  /\ PrintAndReturn("installer", INSTALLER_MESSAGE)
  /\ UNCHANGED <<env, runs, prevOk>>

\* line 28
InstallerPrint ==
  /\ pc["installer"] = "L28"
  /\ PrintAndReturn("installer", INSTALLER_MESSAGE)
  /\ UNCHANGED <<env, runs, prevOk>>

create_installer_assets ==
  \/ SidebarNew
  \/ SidebarBorder
  \/ SidebarPolygon
  \/ SidebarSave
  \/ HeaderNew
  \/ HeaderPolygon
  \/ HeaderSave
  \/ InstallerPrint

Next == create_neuro_icon \/ create_installer_assets

Spec == Init /\ [][Next]_vars

(* ------------------------------------------------------------------ *)
(* A whole run of a script on a file system, start to end                *)
(* ------------------------------------------------------------------ *)

\* the canvas create_neuro_icon saves, under each edge rule
IconCanvasTable ==
  [rule \in EdgeRules |->
     Paint(Paint(NewImage("RGBA", <<size, size>>, WHITE_RGBA),
                 IconBackground, WHITE_RGBA),
           PolygonShape(icon_path_coords, rule), ZINC_RGBA)]

\* the canvases create_installer_assets saves, under each edge rule
SidebarCanvasTable ==
  [rule \in EdgeRules |->
     Paint(Paint(NewImage("RGB", <<sidebar_w, sidebar_h>>, WHITE_RGB),
                 RectangleShape(<<0, sidebar_h - border_h, sidebar_w, sidebar_h>>),
                 ZINC_RGB),
           PolygonShape(sidebar_path_coords, rule), ZINC_RGB)]

HeaderCanvasTable ==
  [rule \in EdgeRules |->
     Paint(NewImage("RGB", <<header_w, header_h>>, WHITE_RGB),
           PolygonShape(header_n_small, rule), ZINC_RGB)]

IconCanvas == IconCanvasTable[pil.edge]
SidebarCanvas == SidebarCanvasTable[pil.edge]
HeaderCanvas == HeaderCanvasTable[pil.edge]

\* the files after one uninterrupted run of create_neuro_icon on files f
RunIcon(f) ==
  IF ~pil.rounded_rectangle \/ ~CanOpen(ICO_PATH) THEN f
  ELSE LET f1 == [f EXCEPT ![ICO_PATH] = EncodeICO(IconCanvas, icon_sizes_list)]
       IN IF ~CanOpen(PNG_PATH) THEN f1
          ELSE [f1 EXCEPT ![PNG_PATH] = EncodePNG(IconCanvas)]

\* the files after one uninterrupted run of create_installer_assets on files f
RunInstaller(f) ==
  IF ~CanOpen(SIDEBAR_PATH) THEN f
  ELSE LET f1 == [f EXCEPT ![SIDEBAR_PATH] = EncodeBMP(SidebarCanvas)]
       IN IF ~CanOpen(HEADER_PATH) THEN f1
          ELSE [f1 EXCEPT ![HEADER_PATH] = EncodeBMP(HeaderCanvas)]

(* ------------------------------------------------------------------ *)
(* Vocabulary of the properties                                        *)
(* ------------------------------------------------------------------ *)

FilesOf(p) == IF p = "icon" THEN IconFiles ELSE InstallerFiles

Ended(p) == pc[p] \in {"done", "failed"}

\* the paths a run writes, in the order of its save calls
SaveOrder(p) ==
  IF p = "icon" THEN <<ICO_PATH, PNG_PATH>> ELSE <<SIDEBAR_PATH, HEADER_PATH>>

\* a file some run of the scripts produced
Fresh(content) == content.format \in {"ICO", "PNG", "BMP"}

Rgb(c) == <<c[1], c[2], c[3]>>
Opaque(c) == Len(c) = 4 => c[4] = 255

\* the colours that occur in columns s[1]..s[2] of row y
SpanColours(im, y, s) ==
  {im.px[y][i][3] :
     i \in {j \in DOMAIN im.px[y] : im.px[y][j][1] <= s[2] /\ im.px[y][j][2] >= s[1]}}

\* the maximal spans of columns 0..w-1 that the given spans leave uncovered
Gaps(spans, w) ==
  LET Covered(x) == \E s \in spans : s[1] <= x /\ x <= s[2]
      starts == {x \in {0} \cup {s[2] + 1 : s \in spans} : x <= w - 1 /\ ~Covered(x)}
      ends == {x \in {w - 1} \cup {s[1] - 1 : s \in spans} : x >= 0 /\ ~Covered(x)}
  IN {<<a, SetMin({e \in ends : e >= a})>> : a \in starts}

\* every pixel of row y has colour c
RowIs(im, y, c) == SpanColours(im, y, <<0, im.size[1] - 1>>) = {c}

\* every run of every row lies on the canvas, and the rows are those of the
\* canvas
WithinCanvas(im) ==
  /\ DOMAIN im.px = 0..(im.size[2] - 1)
  /\ \A y \in DOMAIN im.px : \A i \in DOMAIN im.px[y] :
       /\ 0 <= im.px[y][i][1]
       /\ im.px[y][i][1] <= im.px[y][i][2]
       /\ im.px[y][i][2] <= im.size[1] - 1

\* the vertices a coordinate list names: a last point that repeats the first
\* closes the outline and is no further vertex
Vertices(xy) ==
  IF Len(xy) > 1 /\ xy[Len(xy)] = xy[1] THEN SubSeq(xy, 1, Len(xy) - 1) ELSE xy

Orient(a, b, c) == (b[1] - a[1]) * (c[2] - a[2]) - (b[2] - a[2]) * (c[1] - a[1])
Sgn(v) == IF v > 0 THEN 1 ELSE IF v < 0 THEN -1 ELSE 0

InBox(a, b, c) ==
  /\ Min2(a[1], b[1]) <= c[1] /\ c[1] <= Max2(a[1], b[1])
  /\ Min2(a[2], b[2]) <= c[2] /\ c[2] <= Max2(a[2], b[2])

\* segments ab and cd cross or touch
SegmentsMeet(a, b, c, d) ==
  LET o1 == Sgn(Orient(a, b, c))
      o2 == Sgn(Orient(a, b, d))
      o3 == Sgn(Orient(c, d, a))
      o4 == Sgn(Orient(c, d, b))
  IN \/ o1 # o2 /\ o3 # o4
     \/ o1 = 0 /\ InBox(a, b, c)
     \/ o2 = 0 /\ InBox(a, b, d)
     \/ o3 = 0 /\ InBox(c, d, a)
     \/ o4 = 0 /\ InBox(c, d, b)

\* no two non-adjacent edges of the closed outline through xy cross or touch
NonSelfIntersecting(xy) ==
  LET n == Len(xy)
      Nxt(i) == (i % n) + 1
  IN \A i, j \in 1..n :
       (i < j /\ j # Nxt(i) /\ i # Nxt(j))
         => ~SegmentsMeet(xy[i], xy[Nxt(i)], xy[j], xy[Nxt(j)])

\* the coordinate lists bound at this moment, each passed to a polygon call
PolygonsDrawn ==
  {xy \in {locals["icon"].path_coords, locals["installer"].path_coords,
           locals["installer"].n_small} : xy # NoList}

(* ------------------------------------------------------------------ *)
(* C1                                                                  *)
(* ------------------------------------------------------------------ *)

\* C1 (as claimed): an icon.ico written by create_neuro_icon holds exactly 7
\* images, of 16, 32, 48, 64, 128, 256 and 512 pixels square, each resampled
\* from the one 512x512 canvas.
C1_IcoHoldsSevenImages ==
  fs[ICO_PATH].format = "ICO" =>
    /\ Cardinality(fs[ICO_PATH].frames) = 7
    /\ fs[ICO_PATH].frames =
         {<<16, 16>>, <<32, 32>>, <<48, 48>>, <<64, 64>>,
          <<128, 128>>, <<256, 256>>, <<512, 512>>}
    /\ fs[ICO_PATH].source.size = <<512, 512>>

(* ------------------------------------------------------------------ *)
(* C2                                                                  *)
(* ------------------------------------------------------------------ *)

IconRunSucceeded ==
  /\ pc["icon"] = "done"
  /\ wrote["icon"] = <<ICO_PATH, PNG_PATH>>
  /\ fs[ICO_PATH].format = "ICO"
  /\ fs[PNG_PATH].format = "PNG"
  /\ printed["icon"] = 1
  /\ ICON_MESSAGE \in Range(stdout)

IconRunFailedEmpty ==
  /\ pc["icon"] = "failed"
  /\ wrote["icon"] = <<>>
  /\ fs[ICO_PATH] = NoFile
  /\ fs[PNG_PATH] = NoFile
  /\ printed["icon"] = 0
  /\ ICON_MESSAGE \notin Range(stdout)

\* C2 (as claimed): a run of create_neuro_icon that has ended has, when the
\* build directory exists, written exactly icon.ico and icon.png and printed
\* the message; when the directory is absent it has failed, with neither file
\* there and nothing printed.
C2_DirDecidesOutcome ==
  Ended("icon") =>
    /\ dirExists => IconRunSucceeded
    /\ ~dirExists => IconRunFailedEmpty

\* C2 (amended): as claimed, for a directory that exists, when nothing else
\* stops the run: the library offers rounded_rectangle and both targets can
\* be opened for writing.
C2_RunOutcome ==
  Ended("icon") =>
    /\ (dirExists /\ pil.rounded_rectangle /\ locked \cap IconFiles = {})
         => IconRunSucceeded
    /\ ~dirExists => IconRunFailedEmpty

\* C2 witness: a run over an existing directory has ended with both files
\* written, one of them over a file that was there before
C2_Witness ==
  /\ dirExists
  /\ IconRunSucceeded
  /\ fs0[PNG_PATH] = Stale

(* ------------------------------------------------------------------ *)
(* C3                                                                  *)
(* ------------------------------------------------------------------ *)

\* C3: the sidebar canvas, at the moment it is saved, is 164 x 314, RGB; its
\* rows 309..313 are near-black in every column 0..163; no row above 309 is
\* near-black throughout; and the raster holds nothing outside the canvas.
\* The file written holds that canvas.
C3_SidebarBand ==
  /\ pc["installer"] = "L16" =>
       LET im == locals["installer"].sidebar
       IN /\ im.size = <<164, 314>>
          /\ im.mode = "RGB"
          /\ \A y \in 309..313 : RowIs(im, y, <<24, 24, 27>>)
          /\ \A y \in 0..308 : ~RowIs(im, y, <<24, 24, 27>>)
          /\ WithinCanvas(im)
  /\ pc["installer"] = "L19" =>
       fs[SIDEBAR_PATH] = [format |-> "BMP", image |-> locals["installer"].sidebar]

\* C3 witness: the sidebar, five near-black rows at its foot, has been saved
C3_Witness ==
  /\ pc["installer"] = "L19"
  /\ fs[SIDEBAR_PATH].format = "BMP"
  /\ GetPixel(fs[SIDEBAR_PATH].image, 163, 313) = <<24, 24, 27>>
  /\ GetPixel(fs[SIDEBAR_PATH].image, 0, 309) = <<24, 24, 27>>
  /\ GetPixel(fs[SIDEBAR_PATH].image, 0, 308) = <<255, 255, 255>>

(* ------------------------------------------------------------------ *)
(* C4                                                                  *)
(* ------------------------------------------------------------------ *)

\* the glyph region of each polygon: the pixels polygon(xy) paints under one
\* edge rule or the other
GlyphRegion ==
  [xy \in GlyphCoords |->
     [y \in RowsOf(xy) |->
        MergeSpans(PolygonTable[xy].centre[y] \cup PolygonTable[xy].nearest[y])]]

\* On canvas im, on which polygon(xy) was drawn and whose rows in band hold
\* the border: every pixel strictly inside the polygon is near-black; every
\* pixel outside the band and outside the glyph region (the pixels polygon(xy)
\* paints under some edge rule) is white; and every pixel is one of the two,
\* opaque.
ColourConstancy(im, xy, band) ==
  /\ \A y \in DOMAIN InteriorTable[xy] : \A s \in InteriorTable[xy][y] :
       {Rgb(c) : c \in SpanColours(im, y, s)} = {<<24, 24, 27>>}
  /\ \A y \in (0..(im.size[2] - 1)) \ band :
       \A g \in Gaps(IF y \in RowsOf(xy) THEN GlyphRegion[xy][y] ELSE {},
                     im.size[1]) :
         {Rgb(c) : c \in SpanColours(im, y, g)} = {<<255, 255, 255>>}
  /\ \A y \in 0..(im.size[2] - 1) : \A i \in DOMAIN im.px[y] :
       /\ Rgb(im.px[y][i][3]) \in {<<24, 24, 27>>, <<255, 255, 255>>}
       /\ Opaque(im.px[y][i][3])

\* C4: each of the three canvases, at the moment it is saved, has this colour
\* constancy: the 512x512 icon (at both of its save calls), the 164x314
\* sidebar with its band in rows 309..313, and the 150x57 header.
C4_ColourConstancy ==
  /\ pc["icon"] \in {"L25", "L27"} =>
       /\ locals["icon"].image.size = <<512, 512>>
       /\ ColourConstancy(locals["icon"].image, locals["icon"].path_coords, {})
  /\ pc["installer"] = "L16" =>
       /\ locals["installer"].sidebar.size = <<164, 314>>
       /\ ColourConstancy(locals["installer"].sidebar,
                          locals["installer"].path_coords, 309..313)
  /\ pc["installer"] = "L27" =>
       /\ locals["installer"].header.size = <<150, 57>>
       /\ ColourConstancy(locals["installer"].header,
                          locals["installer"].n_small, {})

\* C4 witness: the icon is about to be saved as PNG and the header as BMP,
\* each with near-black inside its glyph and white in its corner
C4_Witness ==
  /\ pc["icon"] = "L27"
  /\ pc["installer"] = "L27"
  /\ Rgb(GetPixel(locals["icon"].image, 184, 256)) = <<24, 24, 27>>
  /\ Rgb(GetPixel(locals["icon"].image, 0, 0)) = <<255, 255, 255>>
  /\ GetPixel(locals["installer"].header, 122, 30) = <<24, 24, 27>>
  /\ GetPixel(locals["installer"].header, 0, 0) = <<255, 255, 255>>

(* ------------------------------------------------------------------ *)
(* C5                                                                  *)
(* ------------------------------------------------------------------ *)

C6_TenPairsSimple ==
  \A xy \in PolygonsDrawn : Len(xy) = 10 /\ NonSelfIntersecting(xy)

\* C6 (amended): every coordinate list passed to a polygon call names exactly
\* 10 vertices: the sidebar's and the header's have 10 pairs, the icon's has
\* 11, the last repeating the first; and no two non-adjacent edges of the
\* closed outline through the 10 vertices cross or touch.
C6_TenVerticesSimple ==
  /\ \A xy \in PolygonsDrawn :
       /\ Len(Vertices(xy)) = 10
       /\ Cardinality(Range(Vertices(xy))) = 10
       /\ NonSelfIntersecting(Vertices(xy))
  /\ locals["icon"].path_coords # NoList =>
       /\ Len(locals["icon"].path_coords) = 11
       /\ locals["icon"].path_coords[11] = locals["icon"].path_coords[1]
  /\ locals["installer"].path_coords # NoList =>
       Len(locals["installer"].path_coords) = 10
  /\ locals["installer"].n_small # NoList =>
       Len(locals["installer"].n_small) = 10

\* C6 witness: all three polygons have been drawn
C6_Witness ==
  /\ Cardinality(PolygonsDrawn) = 3
  /\ pc["icon"] = "L25"
  /\ pc["installer"] = "L27"

(* ------------------------------------------------------------------ *)
(* C7                                                                  *)
(* ------------------------------------------------------------------ *)

\* C7: when one run of each script has ended, however their steps were
\* interleaved, every one of the four files holds what it holds after the two
\* runs one after the other, in either order; and no step of one script
\* touches a file of the other.
C7_InterleavingsAgree ==
  /\ (runs["icon"] = 1 /\ runs["installer"] = 1
        /\ Ended("icon") /\ Ended("installer"))
       => /\ fs = RunInstaller(RunIcon(fs0))
          /\ fs = RunIcon(RunInstaller(fs0))
  /\ (runs["icon"] = 0) => \A f \in IconFiles : fs[f] = fs0[f]
  /\ (runs["installer"] = 0) => \A f \in InstallerFiles : fs[f] = fs0[f]
  /\ IconFiles \cap InstallerFiles = {}

\* C7 witness: one run of each script has ended, each having written its two
\* files
C7_Witness ==
  /\ runs["icon"] = 1 /\ runs["installer"] = 1
  /\ pc["icon"] = "done" /\ pc["installer"] = "done"
  /\ \A f \in Files : Fresh(fs[f])

(* ------------------------------------------------------------------ *)
(* C8                                                                  *)
(* ------------------------------------------------------------------ *)

\* C8: a run of create_installer_assets prints at most one line; it writes
\* the sidebar before the header; and when it has printed, it has written
\* both, the sidebar first, and both files are there.
C8_MessageAfterBothWrites ==
  /\ printed["installer"] <= 1
  /\ wrote["installer"] \in
       {<<>>, <<SIDEBAR_PATH>>, <<SIDEBAR_PATH, HEADER_PATH>>}
  /\ printed["installer"] = 1 =>
       /\ wrote["installer"] = <<SIDEBAR_PATH, HEADER_PATH>>
       /\ fs[SIDEBAR_PATH].format = "BMP"
       /\ fs[HEADER_PATH].format = "BMP"
  /\ Cardinality({i \in DOMAIN stdout : stdout[i] = INSTALLER_MESSAGE})
       <= runs["installer"]

\* C8 witness: the message has been printed
C8_Witness ==
  /\ printed["installer"] = 1
  /\ INSTALLER_MESSAGE \in Range(stdout)

(* ------------------------------------------------------------------ *)
(* C9                                                                  *)
(* ------------------------------------------------------------------ *)

\* the paths a run has written when the call named by what raises
WrittenBefore(p, what) ==
  IF what \in {PNG_PATH, HEADER_PATH} THEN SubSeq(SaveOrder(p), 1, 1) ELSE <<>>

\* C9: a run in which a call has raised stays at that call: it has printed
\* nothing, its frame is gone, it has written exactly the files its earlier
\* save calls wrote, and those files are still there; the target of a save
\* that raised holds what it held before; a run in which nothing raised and
\* which has ended has written both its files and printed.
C9_AbortAtFirstFailure ==
  \A p \in Procs :
    /\ failed[p] # None =>
         /\ pc[p] = "failed"
         /\ printed[p] = 0
         /\ locals[p] = NoLocals(p)
         /\ wrote[p] = WrittenBefore(p, failed[p])
         /\ \A i \in DOMAIN wrote[p] : Fresh(fs[wrote[p][i]])
         /\ failed[p] \in Files => fs[failed[p]] = fs0[failed[p]]
    /\ pc[p] = "failed" => failed[p] # None
    /\ (pc[p] = "done") => (wrote[p] = SaveOrder(p) /\ printed[p] = 1)

\* C9 witness: the sidebar was written, the header's save raised, and the
\* sidebar is still there while no header was produced
C9_Witness ==
  /\ failed["installer"] = HEADER_PATH
  /\ wrote["installer"] = <<SIDEBAR_PATH>>
  /\ fs[SIDEBAR_PATH].format = "BMP"
  /\ fs[HEADER_PATH] = Stale

(* ------------------------------------------------------------------ *)
(* C10                                                                 *)
(* ------------------------------------------------------------------ *)

\* every point of xy lies on a canvas of the given size
OnCanvas(xy, wh) ==
  \A i \in DOMAIN xy :
    /\ 0 <= xy[i][1] /\ xy[i][1] <= wh[1] - 1
    /\ 0 <= xy[i][2] /\ xy[i][2] <= wh[2] - 1

\* C10: every vertex passed to a polygon call lies on the canvas it is drawn
\* on (icon: 0..511 both ways; sidebar: x in 0..163, y in 0..313; header: x in
\* 0..149, y in 0..56), and every sidebar vertex lies above the band (y < 309).
C10_VerticesOnCanvas ==
  /\ locals["icon"].path_coords # NoList =>
       /\ locals["icon"].image.size = <<512, 512>>
       /\ OnCanvas(locals["icon"].path_coords, locals["icon"].image.size)
  /\ locals["installer"].path_coords # NoList =>
       /\ locals["installer"].sidebar.size = <<164, 314>>
       /\ OnCanvas(locals["installer"].path_coords,
                   locals["installer"].sidebar.size)
       /\ \A i \in DOMAIN locals["installer"].path_coords :
            locals["installer"].path_coords[i][2] < 309
  /\ locals["installer"].n_small # NoList =>
       /\ locals["installer"].header.size = <<150, 57>>
       /\ OnCanvas(locals["installer"].n_small, locals["installer"].header.size)

\* C10 witness: all three polygons have been drawn, the sidebar's and the
\* header's in the same frame
C10_Witness ==
  /\ Cardinality(PolygonsDrawn) = 3
  /\ pc["icon"] = "L27"
  /\ pc["installer"] = "L28"

====
